---- MODULE Spec2Model ----
(***************************************************************************)
(* UniNote: the group service (src/lib/groups.ts) over the remote store.    *)
(* The store holds profiles, groups, group_members and posts; every         *)
(* GroupService operation is one action that runs the whole async function  *)
(* to completion.  The store keeps at most one group_members row per        *)
(* (group_id, user_id) pair, which getGroupDetails relies on (maybeSingle). *)
(* Further parts: the post review pages (PendingPostCard, UserNoteCard,     *)
(* the note-creation form), the authorization helpers (auth-utils.ts,       *)
(* use-user-role.ts) and createGroup / deleteGroup under remote errors;     *)
(* the like and comment statistics getGroupDetails attaches to each post;   *)
(* AuthProvider (auth-context.tsx) with its profile lookups in flight, and  *)
(* ProtectedRoute over it; the feed page with its change-event              *)
(* subscription; and updateMembershipStatus taken one await at a time by    *)
(* concurrent callers.                                                      *)
(* Each part has its own specification over the same store.                 *)
(***************************************************************************)
EXTENDS Integers, Sequences, FiniteSets, TLC

\* ---------------------------------------------------------------- bounds
MaxPosts == 1
MaxNames == 3
\* profile lookups in flight at once
MaxFetches == 2
\* change events waiting to be delivered
MaxEvents == 2

\* ------------------------------------------------------- store vocabulary
Users == {"u1", "u2"}
NoUser == "undefined"
\* Group ids in the order the store hands them out.
GroupOrder == <<"g1", "g2">>
GroupIds == {"g1", "g2"}
\* A group_members row is unique for its (group_id, user_id) pair; its opaque
\* id is named by that pair.
MemberIds == GroupIds \X Users
PostIds == 1..MaxPosts

NoteIds == {"n1", "n2"}

UserRole == {"user", "group_admin", "universal_admin"}
ApprovalStatus == {"pending", "approved", "rejected"}

\* Usernames typed by a caller, and String.prototype.toLowerCase on them.
Names == {"Alice", "bob", "ghost"}
ToLowerCase(s) == IF s = "Alice" THEN "alice" ELSE s

\* The profiles table: stored usernames are lower case (signUp lower-cases).
UsernameOf(u) == IF u = "u1" THEN "alice" ELSE "bob"
\* Row order of the profiles table as a select returns it.
ProfileOrder == <<"u1", "u2">>

RoleConfigs ==
  { [u \in Users |-> IF u = "u1" THEN "group_admin" ELSE "user"],
    [u \in Users |-> IF u = "u1" THEN "universal_admin" ELSE "user"],
    [u \in Users |-> "universal_admin"] }

VARIABLES
  profiles,       \* [Users -> UserRole]          profiles.user_role
  groups,         \* set of existing group ids    groups.id
  member_count,   \* [GroupIds -> Nat]            groups.member_count
  group_members,  \* set of GroupMember rows
  posts,          \* set of Post rows
  ret,            \* the last call: operation, arguments, outcome
  notes,          \* [existing NoteIds -> Post row]  posts, with review fields
  pendingPosts,   \* [Users -> SUBSET NoteIds]   a reviewer's pending-post cards
  userPosts,      \* [NoteIds -> status or "none"]  the author's note cards
  editDialogOpen, \* SUBSET NoteIds              note cards with the edit dialog open
  post_likes,     \* set of <<post id, user id>>  post_likes rows
  comments,       \* set of comment rows
  auth,           \* the AuthContext value: user, profile, session, loading
  currentUserIdRef, \* currentUserIdRef.current
  hasInitialized, \* the flag of the AuthProvider effect
  startup,        \* what is still to come of mounting: getSession, INITIAL_SESSION
  profileFetches, \* fetchProfile calls in flight, each with what awaits it
  pathname,       \* window.location.pathname
  clientSession,  \* the session the auth client holds
  feedMounted,    \* whether a FeedPage is mounted and subscribed
  feedPosts,      \* the posts state of FeedPage, a sequence
  feedFetch,      \* the fetchPosts call in flight, if any
  changeFeed,     \* change events not yet delivered to FeedPage, oldest first
  calls           \* [Callers -> an updateMembershipStatus call taken step by step]

\* The state of the post review pages.
reviewVars == <<notes, pendingPosts, userPosts, editDialogOpen>>

\* The post_likes and comments tables.
statsVars == <<post_likes, comments>>

\* The state of AuthProvider and of the auth client and router it talks to.
authVars == <<auth, currentUserIdRef, hasInitialized, startup, profileFetches,
              pathname, clientSession>>

\* The state of FeedPage, without the change feed it listens to.
feedVars == <<feedMounted, feedPosts, feedFetch>>

\* The state outside the group service and the review pages.
pageVars == <<statsVars, authVars, feedVars, calls>>
\* pageVars without the named part.
notStats == <<authVars, feedVars, calls>>
notAuth == <<statsVars, feedVars, calls>>
\* What an operation that publishes no change event leaves alone.
quietVars == <<pageVars, changeFeed>>

vars == <<profiles, groups, member_count, group_members, posts, ret,
          notes, pendingPosts, userPosts, editDialogOpen, pageVars, changeFeed>>

\* ------------------------------------------------- AuthProvider vocabulary
\* null, for a user id
Null == "null"
\* A session of the auth client: its user and its access token.
Tokens == {"t1", "t2"}
NullSession == [user |-> Null, token |-> Null]
Sessions == [user : Users, token : Tokens]
\* A row of profiles as AuthProvider holds it, and null.
NullProfile == [id |-> Null, user_role |-> Null]
Paths == {"/login", "/"}

\* Concurrent callers of updateMembershipStatus, and a caller between calls.
Callers == {"a1", "a2"}
Idle == [pc |-> "idle", group |-> Null, count |-> 0]
NoCalls == [a \in Callers |-> Idle]

\* A fetchPosts call: idle, its query pending, or its rows on their way to
\* setPosts.
NoFetch == [stage |-> "idle", rows |-> <<>>]

\* No FeedPage is mounted.
NoFeed ==
  /\ feedMounted = FALSE
  /\ feedPosts = <<>>
  /\ feedFetch = NoFetch
  /\ changeFeed = <<>>

\* AuthProvider as useState and useRef create it, before its effect has run.
AuthMounted ==
  /\ auth = [user |-> Null, profile |-> NullProfile, session |-> NullSession,
             loading |-> TRUE]
  /\ currentUserIdRef = Null
  /\ hasInitialized = FALSE
  /\ startup = {"getSession", "INITIAL_SESSION"}
  /\ profileFetches = {}

\* ------------------------------------------------------------ sequences
RECURSIVE SelectSeq2(_, _)
\* Array.prototype.filter over a set-membership test
SelectSeq2(s, S) ==
  IF s = <<>> THEN <<>>
  ELSE IF Head(s) \in S THEN <<Head(s)>> \o SelectSeq2(Tail(s), S)
       ELSE SelectSeq2(Tail(s), S)

Range(s) == {s[i] : i \in DOMAIN s}

SeqsUpTo(S, n) == UNION {[1..k -> S] : k \in 0..n}

\* ---------------------------------------------------------- store queries
MemberRow(g, u, adm, st) ==
  [id |-> <<g, u>>, group_id |-> g, user_id |-> u, is_admin |-> adm, status |-> st]

\* select * from group_members where group_id = g and user_id = u
RowsOf(g, u) == {m \in group_members : m.group_id = g /\ m.user_id = u}

\* select count(*) from group_members where group_id = g and status = approved
ApprovedCount(g) ==
  Cardinality({m \in group_members : m.group_id = g /\ m.status = "approved"})

\* Mutant: the count is incremented instead of recomputed.
ApprovedIn_Increment(rows, g) == member_count[g] + 1

\* Mutant: the recount forgets the status filter.
ApprovedIn_AllRows(rows, g) ==
  Cardinality({m \in rows : m.group_id = g})

\* The approved rows of group g in a given group_members table.
ApprovedIn(rows, g) ==
  Cardinality({m \in rows : m.group_id = g /\ m.status = "approved"})

\* Posts of a query result, ordered by created_at descending.
RECURSIVE OrderDesc(_)
OrderDesc(S) ==
  IF S = {} THEN <<>>
  ELSE LET newest == CHOOSE p \in S : \A q \in S : q.created_at <= p.created_at
       IN <<newest>> \o OrderDesc(S \ {newest})

\* ------------------------------------------------------- getGroupDetails
\* The approval_status filter of the primary (author-joined) posts query.
PostsFilter(isAdmin) ==
  IF ~isAdmin THEN {"approved"} ELSE {"pending", "approved"}

\* Mutant: the fallback query carries no approval_status filter.
SimplePostsFilter_NoFilter(isAdmin) == ApprovalStatus

\* The approval_status filter of the fallback (simple) posts query.
SimplePostsFilter(isAdmin) ==
  IF ~isAdmin THEN {"approved"} ELSE {"pending", "approved"}

PostsQuery(g, isAdmin) ==
  OrderDesc({p \in posts : p.group_id = g /\ p.approval_status \in PostsFilter(isAdmin)})

SimplePostsQuery(g, isAdmin) ==
  OrderDesc({p \in posts : p.group_id = g /\ p.approval_status \in SimplePostsFilter(isAdmin)})

IsUniversalAdmin(userId) ==
  userId # NoUser /\ profiles[userId] = "universal_admin"

\* status = memberData?.status || (memberData ? "approved" : "none")
StatusOf(rows) ==
  IF rows = {} THEN "none" ELSE (CHOOSE m \in rows : TRUE).status

\* Mutant: any membership row, pending included, counts as membership.
IsMemberOf_AnyRow(status, isUA) == status # "none" \/ isUA

IsMemberOf(status, isUA) == status = "approved" \/ isUA

MembershipStatusOf(rows, status, isUA) ==
  IF rows # {}
  THEN (IF status = "approved" THEN "member" ELSE "pending")
  ELSE (IF isUA THEN "member" ELSE "none")

\* Mutant: isAdmin comes from the row alone.
IsAdminOf_RowOnly(rows, isUA) ==
  rows # {} /\ (CHOOSE m \in rows : TRUE).is_admin

IsAdminOf(rows, isUA) ==
  (rows # {} /\ (CHOOSE m \in rows : TRUE).is_admin) \/ isUA

\* The value getGroupDetails(groupId, userId) resolves to; postsError says
\* whether the primary posts query failed, so that the simple query is used.
getGroupDetails(g, userId, postsError) ==
  LET isUA == IsUniversalAdmin(userId)
      rows == IF userId = NoUser THEN {} ELSE RowsOf(g, userId)
      status == StatusOf(rows)
      isMember == userId # NoUser /\ IsMemberOf(status, isUA)
      isAdmin == userId # NoUser /\ IsAdminOf(rows, isUA)
  IN [ op |-> "getGroupDetails", group |-> g, user |-> userId,
       simple |-> postsError /\ isMember, ok |-> TRUE,
       member_count |-> ApprovedCount(g),
       isMember |-> isMember,
       isAdmin |-> isAdmin,
       membershipStatus |->
         IF userId = NoUser THEN "none" ELSE MembershipStatusOf(rows, status, isUA),
       posts |-> IF ~isMember THEN <<>>
                 ELSE IF postsError THEN SimplePostsQuery(g, isAdmin)
                 ELSE PostsQuery(g, isAdmin) ]

\* The caller is idle: no call has returned a value that is still being read.
NoCall == [op |-> "none", ok |-> TRUE]

Thrown(op, g, u) == [op |-> op, group |-> g, user |-> u, ok |-> FALSE]
Done(op, g, u) == [op |-> op, group |-> g, user |-> u, ok |-> TRUE]

GetGroupDetails(g, userId, postsError) ==
  /\ ret = NoCall
  /\ ret' = IF g \in groups THEN getGroupDetails(g, userId, postsError)
            ELSE Thrown("getGroupDetails", g, userId)
  /\ UNCHANGED <<quietVars, profiles, groups, member_count, group_members, posts, reviewVars>>

\* ----------------------------------------------------------- createGroup
UniversalAdmins == {u \in Users : profiles[u] = "universal_admin"}

\* Ids are never reused: an id is taken while a group, a membership row or
\* a post still carries it.
UsedGroupIds ==
  groups \cup {m.group_id : m \in group_members} \cup {p.group_id : p \in posts}

NewGroupId ==
  GroupOrder[CHOOSE i \in DOMAIN GroupOrder :
               /\ GroupOrder[i] \notin UsedGroupIds
               /\ \A j \in 1..(i - 1) : GroupOrder[j] \in UsedGroupIds]

\* Mutant: the universal admin is pushed even when it is the creator.
CreateMemberships_AlwaysAdmin(g, creatorId, ua) ==
  <<MemberRow(g, creatorId, TRUE, "approved")>> \o
  (IF ua # NoUser
   THEN <<MemberRow(g, ua, TRUE, "approved")>>
   ELSE <<>>)

\* The memberships array of createGroup: the creator, then the looked-up
\* universal admin when there is one and it is not the creator.
CreateMemberships(g, creatorId, ua) ==
  <<MemberRow(g, creatorId, TRUE, "approved")>> \o
  (IF ua # NoUser /\ ua # creatorId
   THEN <<MemberRow(g, ua, TRUE, "approved")>>
   ELSE <<>>)

CreateGroup(creatorId) ==
  /\ UsedGroupIds # GroupIds
  /\ ret = NoCall
  /\ \E ua \in (IF UniversalAdmins = {} THEN {NoUser} ELSE UniversalAdmins) :
       LET g == NewGroupId
           memberships == CreateMemberships(g, creatorId, ua)
       IN /\ groups' = groups \cup {g}
          /\ group_members' = group_members \cup Range(memberships)
          /\ member_count' = [member_count EXCEPT ![g] = Len(memberships)]
          /\ ret' = [op |-> "createGroup", group |-> g, user |-> creatorId,
                     ok |-> TRUE, admin |-> ua]
  /\ UNCHANGED <<quietVars, profiles, posts, reviewVars>>

\* ------------------------------------------------------------- joinGroup
\* Both inserts of joinGroup name the same (group_id, user_id) pair, so on a
\* pair that has a row the first and the fallback insert fail alike.
\* Mutant: a join request is inserted already approved.
JoinRow_Approved(g, userId) == MemberRow(g, userId, FALSE, "approved")

\* The row joinGroup inserts.
JoinRow(g, userId) == MemberRow(g, userId, FALSE, "pending")

\* An insert for a pair that has a row fails on the uniqueness of the pair.
InsertFails(g, userId) == RowsOf(g, userId) # {}

\* The inserts joinGroup attempts: the fallback runs when the first one fails.
joinAttempts(g, userId) ==
  IF InsertFails(g, userId) THEN <<"with status", "without status">>
  ELSE <<"with status">>

\* Mutant: the insert replaces the row the pair already has.
JoinedMembers_Upsert(g, userId) ==
  (group_members \ RowsOf(g, userId)) \cup {JoinRow(g, userId)}

\* group_members after joinGroup: a failed insert leaves the table as it was.
JoinedMembers(g, userId) ==
  IF InsertFails(g, userId) THEN group_members
  ELSE group_members \cup {JoinRow(g, userId)}

JoinGroup(g, userId) ==
  /\ ret = NoCall
  /\ g \in groups
  /\ group_members' = JoinedMembers(g, userId)
  /\ ret' = [op |-> "joinGroup", group |-> g, user |-> userId,
             ok |-> ~InsertFails(g, userId),
             attempts |-> joinAttempts(g, userId)]
  /\ UNCHANGED <<quietVars, profiles, groups, member_count, posts, reviewVars>>

\* ------------------------------------------------ updateMembershipStatus
\* Mutant: approving deletes the row as rejecting does.
StatusUpdated_DeleteAlways(rows, id, status) ==
  {m \in rows : m.id # id}

\* Mutant: rejecting keeps the row and marks it rejected.
StatusUpdated_MarkRejected(rows, id, status) ==
  {IF m.id = id THEN [m EXCEPT !.status = status] ELSE m : m \in rows}

StatusUpdated(rows, id, status) ==
  IF status = "rejected"
  THEN {m \in rows : m.id # id}
  ELSE {IF m.id = id THEN [m EXCEPT !.status = "approved"] ELSE m : m \in rows}

UpdateMembershipStatus(membershipId, status) ==
  /\ ret = NoCall
  /\ LET found == {m \in group_members : m.id = membershipId}
     IN IF found = {}
        THEN /\ ret' = [op |-> "updateMembershipStatus", id |-> membershipId,
                        status |-> status, ok |-> FALSE]
             /\ UNCHANGED <<group_members, member_count>>
        ELSE LET membership == CHOOSE m \in found : TRUE
                 g == membership.group_id
                 rows == StatusUpdated(group_members, membershipId, status)
             IN /\ group_members' = rows
                /\ member_count' = [member_count EXCEPT ![g] = ApprovedIn(rows, g)]
                /\ ret' = [op |-> "updateMembershipStatus", id |-> membershipId,
                           status |-> status, ok |-> TRUE, group |-> g,
                           user |-> membership.user_id, was |-> membership.status]
  /\ UNCHANGED <<quietVars, profiles, groups, posts, reviewVars>>

\* ------------------------------------- toggleGroupAdmin, removeUserFromGroup
ToggleGroupAdmin(g, userId, makeAdmin) ==
  /\ ret = NoCall
  /\ g \in groups
  /\ group_members' =
       {IF m.group_id = g /\ m.user_id = userId
        THEN [m EXCEPT !.is_admin = makeAdmin] ELSE m : m \in group_members}
  /\ ret' = Done("toggleGroupAdmin", g, userId)
  /\ UNCHANGED <<quietVars, profiles, groups, member_count, posts, reviewVars>>

RemoveUserFromGroup(g, userId) ==
  /\ ret = NoCall
  /\ g \in groups
  /\ LET rows == {m \in group_members : ~(m.group_id = g /\ m.user_id = userId)}
     IN /\ group_members' = rows
        /\ member_count' = [member_count EXCEPT ![g] = ApprovedIn(rows, g)]
  /\ ret' = Done("removeUserFromGroup", g, userId)
  /\ UNCHANGED <<quietVars, profiles, groups, posts, reviewVars>>

\* ------------------------------------------------------ addMembersToGroup
RECURSIVE MapLower(_)
\* usernames.map((u) => u.toLowerCase())
MapLower(names) ==
  IF names = <<>> THEN <<>> ELSE <<ToLowerCase(Head(names))>> \o MapLower(Tail(names))

RECURSIVE MapUsername(_)
\* profiles.map((p) => p.username)
MapUsername(us) ==
  IF us = <<>> THEN <<>> ELSE <<UsernameOf(Head(us))>> \o MapUsername(Tail(us))

\* select id, username from profiles where username in (lowered)
ProfilesByUsername(lowered) ==
  SelectSeq2(ProfileOrder, {u \in Users : UsernameOf(u) \in Range(lowered)})

RECURSIVE NotFound_CaseSensitive(_, _)
\* Mutant: the not-found test compares the username as typed.
NotFound_CaseSensitive(usernames, foundUsernames) ==
  IF usernames = <<>> THEN <<>>
  ELSE (IF Head(usernames) \notin foundUsernames
        THEN <<Head(usernames)>> ELSE <<>>)
       \o NotFound_CaseSensitive(Tail(usernames), foundUsernames)

RECURSIVE NotFound(_, _)
\* usernames.forEach: push the ones whose lower case is not a found username
NotFound(usernames, foundUsernames) ==
  IF usernames = <<>> THEN <<>>
  ELSE (IF ToLowerCase(Head(usernames)) \notin foundUsernames
        THEN <<Head(usernames)>> ELSE <<>>) \o NotFound(Tail(usernames), foundUsernames)

\* select user_id from group_members where group_id = g and user_id in userIds
ExistingUserIds(g, userIds) ==
  {m.user_id : m \in {r \in group_members : r.group_id = g /\ r.user_id \in Range(userIds)}}

RECURSIVE NewMemberships_Pending(_, _)
NewMemberships_Pending(g, newUserIds) ==
  IF newUserIds = <<>> THEN {}
  ELSE {MemberRow(g, Head(newUserIds), FALSE, "pending")}
       \cup NewMemberships_Pending(g, Tail(newUserIds))

RECURSIVE NewMemberships(_, _)
\* newUserIds.map: one approved, non-admin row per new user
NewMemberships(g, newUserIds) ==
  IF newUserIds = <<>> THEN {}
  ELSE {MemberRow(g, Head(newUserIds), FALSE, "approved")}
       \cup NewMemberships(g, Tail(newUserIds))

AddMembersToGroup(g, usernames) ==
  /\ ret = NoCall
  /\ g \in groups
  /\ LET found == ProfilesByUsername(MapLower(usernames))
         foundUsernames == Range(MapUsername(found))
         notFound == NotFound(usernames, foundUsernames)
         existingUserIds == ExistingUserIds(g, found)
         newUserIds == SelectSeq2(found, Users \ existingUserIds)
         alreadyMembers == MapUsername(SelectSeq2(found, existingUserIds))
         added == MapUsername(SelectSeq2(found, Range(newUserIds)))
         rows == group_members \cup NewMemberships(g, newUserIds)
     IN /\ group_members' = rows
        /\ member_count' = IF newUserIds # <<>>
                           THEN [member_count EXCEPT ![g] = ApprovedIn(rows, g)]
                           ELSE member_count
        /\ ret' = [op |-> "addMembersToGroup", group |-> g, usernames |-> usernames,
                   ok |-> TRUE, before |-> {m.user_id : m \in {r \in group_members : r.group_id = g}},
                   added |-> added, notFound |-> notFound,
                   alreadyMembers |-> alreadyMembers]
  /\ UNCHANGED <<quietVars, profiles, groups, posts, reviewVars>>

\* ------------------------------------------------------------------ posts
PostRow(id, g, st) ==
  [id |-> id, group_id |-> g, approval_status |-> st, created_at |-> id]

\* Create-note/page.tsx holds two CreateNotePage components, each with its
\* own handleSubmit; they differ in the approval_status they insert.
NoteForms == {"first", "second"}

\* The approval_status handleSubmit inserts.
InitialStatus(form, postType) ==
  IF form = "first" THEN "pending"
  ELSE IF postType = "public" THEN "pending" ELSE "approved"

\* The id of the next post row: the least id no post carries.
NewPostId ==
  CHOOSE i \in PostIds \ {p.id : p \in posts} :
    \A j \in PostIds \ {p.id : p \in posts} : i <= j

\* handleSubmit with postType = group and a chosen group.
SubmitGroupPost(g, form) ==
  /\ ret = NoCall
  /\ g \in groups
  /\ Cardinality(posts) < MaxPosts
  /\ posts' = posts \cup {PostRow(NewPostId, g, InitialStatus(form, "group"))}
  /\ ret' = [op |-> "handleSubmit", group |-> g, ok |-> TRUE]
  /\ UNCHANGED <<quietVars, profiles, groups, member_count, group_members, reviewVars>>

\* PendingPostCard handleApprove / handleReject: update ... where id = post.id
ReviewPost(postId, status) ==
  /\ ret = NoCall
  /\ \E p \in posts : p.id = postId
  /\ posts' = {IF p.id = postId THEN [p EXCEPT !.approval_status = status] ELSE p
               : p \in posts}
  /\ ret' = [op |-> "review", post |-> postId, ok |-> TRUE]
  /\ UNCHANGED <<quietVars, profiles, groups, member_count, group_members, reviewVars>>

\* ---------------------------------------------------------- specification
Init ==
  /\ profiles \in RoleConfigs
  /\ groups = {}
  /\ member_count = [g \in GroupIds |-> 0]
  /\ group_members = {}
  /\ posts = {}
  /\ ret = NoCall
  /\ notes = [n \in {} |-> {}]
  /\ pendingPosts = [u \in Users |-> {}]
  /\ userPosts = [n \in NoteIds |-> "none"]
  /\ editDialogOpen = {}
  /\ post_likes = {}
  /\ comments = {}
  /\ AuthMounted
  /\ pathname = "/"
  /\ clientSession = NullSession
  /\ NoFeed
  /\ calls = NoCalls

\* The caller takes the returned value and goes back to idle.
Return ==
  /\ ret # NoCall
  /\ ret' = NoCall
  /\ UNCHANGED <<quietVars, profiles, groups, member_count, group_members, posts, reviewVars>>

\* The membership operations of the group service, called one at a time.
Next ==
  \/ \E u \in Users : CreateGroup(u)
  \/ \E g \in GroupIds, u \in Users : JoinGroup(g, u)
  \/ \E id \in MemberIds, st \in {"approved", "rejected"} : UpdateMembershipStatus(id, st)
  \/ \E g \in GroupIds, names \in SeqsUpTo(Names, MaxNames) : AddMembersToGroup(g, names)
  \/ \E g \in GroupIds, u \in Users, b \in BOOLEAN : ToggleGroupAdmin(g, u, b)
  \/ \E g \in GroupIds, u \in Users : RemoveUserFromGroup(g, u)
  \/ Return

Spec == Init /\ [][Next]_vars

\* The read path: groups, memberships and group posts change under
\* getGroupDetails callers.  addMembersToGroup is left to Spec; the rows it
\* inserts (approved, not admin) are the rows joinGroup and an approval leave.
NextDetails ==
  \/ \E u \in Users : CreateGroup(u)
  \/ \E g \in GroupIds, u \in Users : JoinGroup(g, u)
  \/ \E id \in MemberIds, st \in {"approved", "rejected"} : UpdateMembershipStatus(id, st)
  \/ \E g \in GroupIds, u \in Users, b \in BOOLEAN : ToggleGroupAdmin(g, u, b)
  \/ \E g \in GroupIds, u \in Users : RemoveUserFromGroup(g, u)
  \/ \E g \in GroupIds, f \in NoteForms : SubmitGroupPost(g, f)
  \/ \E p \in PostIds, st \in {"approved", "rejected"} : ReviewPost(p, st)
  \/ \E g \in GroupIds, u \in Users \cup {NoUser}, e \in BOOLEAN : GetGroupDetails(g, u, e)
  \/ Return

SpecDetails == Init /\ [][NextDetails]_vars

\* ------------------------------------------------------------ post review
\* What a user can type into a title, content or rejection-reason field.
Texts == {"", "  ", " T "}
Reasons == {"", "  ", " spam "}

\* String.prototype.trim on the strings above
Trim(s) ==
  IF s = "  " THEN ""
  ELSE IF s = " T " THEN "T"
  ELSE IF s = " spam " THEN "spam"
  ELSE s

\* new Date().toISOString() of the reviewer's clock
Times == {"t1", "t2"}

PostTypes == {"public", "group"}

\* The row handleSubmit inserts; the review columns start as null.
NoteRow(postType, st, title, content) ==
  [post_type |-> postType, approval_status |-> st,
   approved_by |-> "null", approved_at |-> "null", rejection_reason |-> "null",
   title |-> Trim(title), content |-> Trim(content)]

\* A change to a posts row as the store publishes it: payload.eventType
\* and payload.new.
PostEvent(eventType, n, row) ==
  [table |-> "posts", eventType |-> eventType, post_id |-> n, row |-> row]

\* The store publishes changes to a subscribed FeedPage; the events wait in
\* changeFeed, of which at most MaxEvents are kept undelivered.
CanPublish == IF feedMounted THEN Len(changeFeed) < MaxEvents ELSE TRUE
Publish(events) ==
  changeFeed' = IF feedMounted THEN changeFeed \o events ELSE changeFeed

\* The outcome of a form handler: whether a request was sent, and the toast.
Outcome(op, n, sent, ok, toast) ==
  [op |-> op, post |-> n, sent |-> sent, ok |-> ok, toast |-> toast]

\* if (!title.trim() || !content.trim())
BlankText(title, content) == Trim(title) = "" \/ Trim(content) = ""

\* handleSubmit of the note-creation form `form`, by a signed-in author.
HandleSubmit(n, form, postType, title, content, error) ==
  /\ ret = NoCall
  /\ n \notin DOMAIN notes
  /\ IF BlankText(title, content)
     THEN /\ ret' = Outcome("createNote", n, FALSE, FALSE, "Title and content are required")
          /\ UNCHANGED notes
     ELSE IF error
     THEN /\ ret' = Outcome("createNote", n, TRUE, FALSE, "Failed to create note")
          /\ UNCHANGED notes
     ELSE /\ notes' = [m \in DOMAIN notes \cup {n} |->
                         IF m = n
                         THEN NoteRow(postType, InitialStatus(form, postType), title, content)
                         ELSE notes[m]]
          /\ ret' = Outcome("createNote", n, TRUE, TRUE, "Note submitted")
  /\ CanPublish
  /\ Publish(IF ret'.ok THEN <<PostEvent("INSERT", n, notes'[n])>> ELSE <<>>)
  /\ UNCHANGED <<pageVars, profiles, groups, member_count, group_members, posts,
                 pendingPosts, userPosts, editDialogOpen>>

\* select ... from posts where approval_status = 'pending'
PendingIn(rows) ==
  {n \in DOMAIN rows : rows[n].approval_status = "pending"}

\* fetchPendingPosts of a reviewer's page: the cards are a snapshot.
FetchPendingPosts(r) ==
  /\ ret = NoCall
  /\ pendingPosts' = [pendingPosts EXCEPT ![r] = PendingIn(notes)]
  /\ UNCHANGED <<quietVars, profiles, groups, member_count, group_members, posts, ret,
                 notes, userPosts, editDialogOpen>>

\* update({approval_status: "approved", approved_by, approved_at}).eq("id", post.id)
ApproveUpdate(row, r, now) ==
  [row EXCEPT !.approval_status = "approved", !.approved_by = r, !.approved_at = now]

\* handleApprove of the card reviewer r holds for note n.
HandleApprove(r, n, now, error) ==
  /\ ret = NoCall
  /\ n \in pendingPosts[r]
  /\ IF error
     THEN /\ ret' = Outcome("handleApprove", n, TRUE, FALSE, "Failed to approve post")
          /\ UNCHANGED <<notes, pendingPosts>>
     ELSE /\ notes' = [notes EXCEPT ![n] = ApproveUpdate(notes[n], r, now)]
          /\ pendingPosts' = [pendingPosts EXCEPT ![r] = PendingIn(notes')]
          /\ ret' = Outcome("handleApprove", n, TRUE, TRUE, "Post approved successfully")
  /\ CanPublish
  /\ Publish(IF ret'.ok THEN <<PostEvent("UPDATE", n, notes'[n])>> ELSE <<>>)
  /\ UNCHANGED <<pageVars, profiles, groups, member_count, group_members, posts,
                 userPosts, editDialogOpen>>

\* if (!rejectionReason.trim())
RejectRefused_EmptyOnly(reason) == reason = ""

RejectRefused(reason) == Trim(reason) = ""

\* update({approval_status: "rejected", ..., rejection_reason}).eq("id", post.id)
RejectUpdate(row, r, now, reason) ==
  [row EXCEPT !.approval_status = "rejected", !.approved_by = r,
              !.approved_at = now, !.rejection_reason = reason]

\* handleReject of the card reviewer r holds for note n.
HandleReject(r, n, reason, now, error) ==
  /\ ret = NoCall
  /\ n \in pendingPosts[r]
  /\ IF RejectRefused(reason)
     THEN /\ ret' = Outcome("handleReject", n, FALSE, FALSE, "Please provide a rejection reason")
          /\ UNCHANGED <<notes, pendingPosts>>
     ELSE IF error
     THEN /\ ret' = Outcome("handleReject", n, TRUE, FALSE, "Failed to reject post")
          /\ UNCHANGED <<notes, pendingPosts>>
     ELSE /\ notes' = [notes EXCEPT ![n] = RejectUpdate(notes[n], r, now, reason)]
          /\ pendingPosts' = [pendingPosts EXCEPT ![r] = PendingIn(notes')]
          /\ ret' = Outcome("handleReject", n, TRUE, TRUE, "Post rejected")
  /\ CanPublish
  /\ Publish(IF ret'.ok THEN <<PostEvent("UPDATE", n, notes'[n])>> ELSE <<>>)
  /\ UNCHANGED <<pageVars, profiles, groups, member_count, group_members, posts,
                 userPosts, editDialogOpen>>

\* The approval_status each of the author's cards shows.
CardsOf(rows) ==
  [n \in NoteIds |-> IF n \in DOMAIN rows THEN rows[n].approval_status ELSE "none"]

\* fetchUserPosts of the profile page
FetchUserPosts ==
  /\ ret = NoCall
  /\ userPosts' = CardsOf(notes)
  /\ UNCHANGED <<quietVars, profiles, groups, member_count, group_members, posts, ret,
                 notes, pendingPosts, editDialogOpen>>

\* {post.approval_status === "pending" && <Button>Edit</Button>}
EditButtonShown(n) == userPosts[n] = "pending"

\* Click on the Edit button of the note card.
OpenEditDialog(n) ==
  /\ ret = NoCall
  /\ EditButtonShown(n)
  /\ editDialogOpen' = editDialogOpen \cup {n}
  /\ UNCHANGED <<quietVars, profiles, groups, member_count, group_members, posts, ret,
                 notes, pendingPosts, userPosts>>

\* update({title, content, approval_status: "pending", rejection_reason: null})
\* Mutant: the edit leaves the stored rejection_reason in place.
EditUpdate_KeepReason(row, title, content) ==
  [row EXCEPT !.title = Trim(title), !.content = Trim(content),
              !.approval_status = "pending"]

EditUpdate(row, title, content) ==
  [row EXCEPT !.title = Trim(title), !.content = Trim(content),
              !.approval_status = "pending", !.rejection_reason = "null"]

\* handleEdit of the note card, from its open edit dialog.
HandleEdit(n, title, content, error) ==
  /\ ret = NoCall
  /\ n \in editDialogOpen
  /\ IF BlankText(title, content)
     THEN /\ ret' = Outcome("handleEdit", n, FALSE, FALSE, "Title and content are required")
          /\ UNCHANGED <<notes, userPosts, editDialogOpen>>
     ELSE IF error
     THEN /\ ret' = Outcome("handleEdit", n, TRUE, FALSE, "Failed to update note")
          /\ UNCHANGED <<notes, userPosts, editDialogOpen>>
     ELSE /\ notes' = [notes EXCEPT ![n] = EditUpdate(notes[n], title, content)]
          /\ editDialogOpen' = editDialogOpen \ {n}
          /\ userPosts' = CardsOf(notes')
          /\ ret' = Outcome("handleEdit", n, TRUE, TRUE,
                            "Note updated successfully. It will require re-approval.")
  /\ CanPublish
  /\ Publish(IF ret'.ok THEN <<PostEvent("UPDATE", n, notes'[n])>> ELSE <<>>)
  /\ UNCHANGED <<pageVars, profiles, groups, member_count, group_members, posts, pendingPosts>>

\* The review pages are open to universal admins; both users are reviewers.
InitReview ==
  /\ Init
  /\ profiles = [u \in Users |-> "universal_admin"]

\* An author, and two reviewers each with a page of pending-post cards.
NextReview ==
  \/ \E n \in NoteIds, f \in NoteForms, t \in PostTypes, title \in Texts,
        content \in Texts, e \in BOOLEAN : HandleSubmit(n, f, t, title, content, e)
  \/ \E r \in Users : FetchPendingPosts(r)
  \/ \E r \in Users, n \in NoteIds, now \in Times, e \in BOOLEAN : HandleApprove(r, n, now, e)
  \/ \E r \in Users, n \in NoteIds, reason \in Reasons, now \in Times, e \in BOOLEAN :
        HandleReject(r, n, reason, now, e)
  \/ FetchUserPosts
  \/ \E n \in NoteIds : OpenEditDialog(n)
  \/ \E n \in NoteIds, title \in Texts, content \in Texts, e \in BOOLEAN :
        HandleEdit(n, title, content, e)
  \/ Return

SpecReview == InitReview /\ [][NextReview]_vars

\* ---------------------------------------------------------- authorization
\* const roleHierarchy = { universal_admin: 3, group_admin: 2, user: 1 }
roleHierarchy_Flat(role) ==
  IF role = "universal_admin" THEN 3 ELSE 1

roleHierarchy(role) ==
  IF role = "universal_admin" THEN 3
  ELSE IF role = "group_admin" THEN 2
  ELSE 1

\* No profile row: the auth context has none loaded, or the lookup gave null.
NoProfile == "null"

\* useUserRole().hasRole(role), for the profile of the auth context
hasRole(profile, role) ==
  IF profile = NoProfile THEN FALSE
  ELSE roleHierarchy(profile) >= roleHierarchy(role)

\* How the remote calls of one helper invocation come out: session = getUser
\* yields no user, profile / membership = that .single() lookup yields no
\* data, thrown = an await of the helper itself throws.
Failures == [session : BOOLEAN, profile : BOOLEAN, membership : BOOLEAN, thrown : BOOLEAN]

\* from("profiles").select("user_role").eq("id", user.id).single()
ProfileOf(userId, e) ==
  IF userId = NoUser \/ e.profile THEN NoProfile ELSE profiles[userId]

\* checkUserRole(requiredRole) called in the session of userId
checkUserRole(userId, requiredRole, e) ==
  IF e.thrown THEN FALSE
  ELSE IF userId = NoUser \/ e.session THEN FALSE
  ELSE IF ProfileOf(userId, e) = NoProfile THEN FALSE
  ELSE roleHierarchy(ProfileOf(userId, e)) >= roleHierarchy(requiredRole)

\* isUniversalAdmin() of auth-utils; its own catch makes a throw a false
isUniversalAdmin(userId, e) ==
  IF userId = NoUser \/ e.session THEN FALSE
  ELSE ProfileOf(userId, e) = "universal_admin"

\* membership?.is_admin === true, for the .single() row of (groupId, user)
MembershipIsAdmin_AnyRow(g, userId, e) ==
  ~e.membership /\ RowsOf(g, userId) # {}

MembershipIsAdmin(g, userId, e) ==
  ~e.membership /\ \E m \in RowsOf(g, userId) : m.is_admin

\* isGroupAdmin(groupId) of auth-utils
isGroupAdmin(g, userId, e) ==
  IF e.thrown THEN FALSE
  ELSE IF userId = NoUser \/ e.session THEN FALSE
  ELSE IF isUniversalAdmin(userId, e) THEN TRUE
  ELSE MembershipIsAdmin(g, userId, e)

\* The fields of a post canApprovePost reads.
AuthPosts == [post_type : PostTypes, group_id : GroupIds \cup {"null"}]

\* canApprovePost(post) of auth-utils
canApprovePost(post, userId, e) ==
  IF e.thrown THEN FALSE
  ELSE IF userId = NoUser \/ e.session THEN FALSE
  ELSE IF post.post_type = "public" THEN isUniversalAdmin(userId, e)
  ELSE IF post.post_type = "group" /\ post.group_id # "null"
       THEN isGroupAdmin(post.group_id, userId, e)
  ELSE FALSE

\* useUserRole().isUniversalAdmin() and .isGroupAdmin(): profile role only
useUserRole_isUniversalAdmin(profile) == profile = "universal_admin"
useUserRole_isGroupAdmin(profile) ==
  profile = "group_admin" \/ useUserRole_isUniversalAdmin(profile)

\* Whether a remote call that the helper made for userId failed: the
\* membership lookup is made only when the universal-admin test said no.
RoleLookupFailed(userId, e) ==
  e.thrown \/ (userId # NoUser /\ (e.session \/ e.profile))

GroupLookupFailed(userId, e) ==
  \/ RoleLookupFailed(userId, e)
  \/ userId # NoUser /\ ~isUniversalAdmin(userId, e) /\ e.membership

\* The answer of one helper call; failed says whether any of its remote
\* calls failed (for the hook: whether the profile was not loaded).
Answer(op, userId, arg, failed, value) ==
  [op |-> op, user |-> userId, arg |-> arg, ok |-> TRUE,
   failed |-> failed, value |-> value]

CheckUserRole(userId, requiredRole, e) ==
  /\ ret = NoCall
  /\ ret' = Answer("checkUserRole", userId, requiredRole, RoleLookupFailed(userId, e),
                   checkUserRole(userId, requiredRole, e))
  /\ UNCHANGED <<quietVars, profiles, groups, member_count, group_members, posts, reviewVars>>

\* The profile the auth context hands to useUserRole.
ContextProfile(userId, loaded) ==
  IF userId = NoUser \/ ~loaded THEN NoProfile ELSE profiles[userId]

HasRole(userId, loaded, role) ==
  /\ ret = NoCall
  /\ ret' = Answer("hasRole", userId, role, ~loaded,
                   hasRole(ContextProfile(userId, loaded), role))
  /\ UNCHANGED <<quietVars, profiles, groups, member_count, group_members, posts, reviewVars>>

IsGroupAdmin(g, userId, e) ==
  /\ ret = NoCall
  /\ ret' = Answer("isGroupAdmin", userId, g, GroupLookupFailed(userId, e),
                   isGroupAdmin(g, userId, e))
  /\ UNCHANGED <<quietVars, profiles, groups, member_count, group_members, posts, reviewVars>>

UseUserRoleIsGroupAdmin(userId, loaded) ==
  /\ ret = NoCall
  /\ ret' = Answer("useUserRole.isGroupAdmin", userId, "null", ~loaded,
                   useUserRole_isGroupAdmin(ContextProfile(userId, loaded)))
  /\ UNCHANGED <<quietVars, profiles, groups, member_count, group_members, posts, reviewVars>>

CanApprovePost(post, userId, e) ==
  /\ ret = NoCall
  /\ ret' = Answer("canApprovePost", userId, post,
                   IF post.post_type = "group" /\ post.group_id # "null"
                   THEN GroupLookupFailed(userId, e) ELSE RoleLookupFailed(userId, e),
                   canApprovePost(post, userId, e))
  /\ UNCHANGED <<quietVars, profiles, groups, member_count, group_members, posts, reviewVars>>

\* Groups and membership rows change while sessions ask the helpers.
NextAuth ==
  \/ \E u \in Users : CreateGroup(u)
  \/ \E g \in GroupIds, u \in Users : JoinGroup(g, u)
  \/ \E g \in GroupIds, u \in Users, b \in BOOLEAN : ToggleGroupAdmin(g, u, b)
  \/ \E u \in Users \cup {NoUser}, r \in UserRole, e \in Failures : CheckUserRole(u, r, e)
  \/ \E u \in Users \cup {NoUser}, l \in BOOLEAN, r \in UserRole : HasRole(u, l, r)
  \/ \E g \in GroupIds, u \in Users \cup {NoUser}, e \in Failures : IsGroupAdmin(g, u, e)
  \/ \E u \in Users \cup {NoUser}, l \in BOOLEAN : UseUserRoleIsGroupAdmin(u, l)
  \/ \E p \in AuthPosts, u \in Users \cup {NoUser}, e \in Failures : CanApprovePost(p, u, e)
  \/ Return

SpecAuth == Init /\ [][NextAuth]_vars

\* ------------------------------------------------------------ error paths
\* Which remote steps of one createGroup call return an error.
CreateErrors == [group : BOOLEAN, admin : BOOLEAN, member : BOOLEAN, update : BOOLEAN]

\* The remote steps createGroup gets to, in order.  Only groupError and
\* memberError are thrown; adminError and updateError are console.error'ed.
createSteps(e) ==
  IF e.group THEN <<"group">>
  ELSE IF e.member THEN <<"group", "admin", "member">>
  ELSE <<"group", "admin", "member", "update">>

\* The error createGroup throws, "none" when it returns the group.
createThrown_ThrowAll(e) ==
  IF e.group THEN "group"
  ELSE IF e.admin THEN "admin"
  ELSE IF e.member THEN "member"
  ELSE IF e.update THEN "update"
  ELSE "none"

createThrown(e) ==
  IF e.group THEN "group"
  ELSE IF e.member THEN "member"
  ELSE "none"

\* createGroup(name, description, creatorId) with remote errors e.
CreateGroupWithErrors(creatorId, e) ==
  /\ ret = NoCall
  /\ UsedGroupIds # GroupIds
  /\ \E ua \in (IF e.admin \/ UniversalAdmins = {} THEN {NoUser} ELSE UniversalAdmins) :
       LET g == NewGroupId
           steps == createSteps(e)
           memberships == CreateMemberships(g, creatorId, ua)
           inserted == "group" \in Range(steps) /\ ~e.group
           joined == "member" \in Range(steps) /\ ~e.member
           counted == "update" \in Range(steps) /\ ~e.update
       IN /\ groups' = IF inserted THEN groups \cup {g} ELSE groups
          /\ group_members' = IF joined THEN group_members \cup Range(memberships)
                              ELSE group_members
          /\ member_count' = IF counted THEN [member_count EXCEPT ![g] = Len(memberships)]
                             ELSE IF inserted THEN [member_count EXCEPT ![g] = 1]
                             ELSE member_count
          /\ ret' = [op |-> "createGroup", group |-> g, user |-> creatorId,
                     ok |-> createThrown(e) = "none", admin |-> ua,
                     steps |-> steps, thrown |-> createThrown(e),
                     errors |-> {st \in Range(steps) : e[st]}]
  /\ UNCHANGED <<quietVars, profiles, posts, reviewVars>>

\* Which deletes of one deleteGroup call return an error.
DeleteErrors == [group_members : BOOLEAN, posts : BOOLEAN, groups : BOOLEAN]

\* The deletes deleteGroup gets to, in order: the first two errors are
\* logged ("Continue anyway"), only the group-row error is thrown.
deleteSteps_StopAtError(e) ==
  IF e.group_members THEN <<"group_members">>
  ELSE IF e.posts THEN <<"group_members", "posts">>
  ELSE <<"group_members", "posts", "groups">>

deleteSteps(e) == <<"group_members", "posts", "groups">>

deleteThrown(e) == IF e.groups THEN "groups" ELSE "none"

\* deleteGroup(groupId) with remote errors e; a delete that returns an error
\* removes nothing.
DeleteGroup(g, e) ==
  /\ ret = NoCall
  /\ g \in groups
  /\ LET steps == deleteSteps(e)
         done(st) == st \in Range(steps) /\ ~e[st]
     IN /\ group_members' = IF done("group_members")
                            THEN {m \in group_members : m.group_id # g}
                            ELSE group_members
        /\ posts' = IF done("posts") THEN {p \in posts : p.group_id # g} ELSE posts
        /\ groups' = IF done("groups") THEN groups \ {g} ELSE groups
        /\ member_count' = IF done("groups") THEN [member_count EXCEPT ![g] = 0]
                           ELSE member_count
        /\ ret' = [op |-> "deleteGroup", group |-> g, user |-> NoUser,
                   ok |-> deleteThrown(e) = "none", steps |-> steps,
                   thrown |-> deleteThrown(e),
                   errors |-> {st \in Range(steps) : e[st]}]
  /\ UNCHANGED <<quietVars, profiles, reviewVars>>

\* Groups are created, joined, posted to and deleted while remote calls fail.
NextErrors ==
  \/ \E u \in Users, e \in CreateErrors : CreateGroupWithErrors(u, e)
  \/ \E g \in GroupIds, u \in Users : JoinGroup(g, u)
  \/ \E g \in GroupIds, f \in NoteForms : SubmitGroupPost(g, f)
  \/ \E g \in GroupIds, e \in DeleteErrors : DeleteGroup(g, e)
  \/ Return

SpecErrors == Init /\ [][NextErrors]_vars

\* ------------------------------------------------------------ post stats
CommentIds == {"c1"}
CommentRow(c, p) == [id |-> c, post_id |-> p]

\* select("*", {count: "exact", head: true}).eq("post_id", post.id)
LikeCount(p) == Cardinality({l \in post_likes : l[1] = p})
CommentCount(p) == Cardinality({c \in comments : c.post_id = p})
\* select("id").eq("post_id", post.id).eq("user_id", userId).maybeSingle()
UserLike(p, userId) == <<p, userId>> \in post_likes

\* How one of the three lookups of a post ends: it resolves with its value,
\* resolves with {count: null / data: null, error}, or rejects.
LookupOutcomes == {"ok", "error", "thrown"}
AllOk == [likeCount |-> "ok", commentCount |-> "ok", userLike |-> "ok"]
\* The ways the lookups of a failing post end.
FailureModes ==
  { [AllOk EXCEPT !.likeCount = "error"],
    [AllOk EXCEPT !.commentCount = "error"],
    [AllOk EXCEPT !.userLike = "error"],
    [AllOk EXCEPT !.commentCount = "thrown"] }

\* Promise.all of the three lookups rejects when one of them rejects.
statsThrown(f) ==
  f.likeCount = "thrown" \/ f.commentCount = "thrown" \/ f.userLike = "thrown"

ZeroStats == [like_count |-> 0, comment_count |-> 0, user_has_liked |-> FALSE]

\* Mutant: a lookup that resolves with an error degrades all three stats.
postStats_AllOrNothing(p, userId, f) ==
  IF f # AllOk THEN ZeroStats
  ELSE [like_count |-> LikeCount(p), comment_count |-> CommentCount(p),
        user_has_liked |-> UserLike(p, userId)]

\* like_count: likeCount || 0, comment_count: commentCount || 0,
\* user_has_liked: !!userLikeResult?.data; the catch block gives ZeroStats.
postStats(p, userId, f) ==
  IF statsThrown(f) THEN ZeroStats
  ELSE [like_count |-> IF f.likeCount = "ok" THEN LikeCount(p) ELSE 0,
        comment_count |-> IF f.commentCount = "ok" THEN CommentCount(p) ELSE 0,
        user_has_liked |-> f.userLike = "ok" /\ UserLike(p, userId)]

\* {...post, like_count, comment_count, user_has_liked}
WithStats(post, userId, f) ==
  LET s == postStats(post.id, userId, f)
  IN [id |-> post.id, group_id |-> post.group_id,
      approval_status |-> post.approval_status, created_at |-> post.created_at,
      like_count |-> s.like_count, comment_count |-> s.comment_count,
      user_has_liked |-> s.user_has_liked]

\* The lookups of the posts in failing end as mode says, the others succeed.
FailureOf(p, failing, mode) == IF p \in failing THEN mode ELSE AllOk

\* getGroupDetails with the stats of each post: posts.map over the selected
\* posts keeps their order.
getGroupDetailsStats(g, userId, postsError, failing, mode) ==
  LET d == getGroupDetails(g, userId, postsError)
  IN [ op |-> "getGroupDetailsStats", group |-> g, user |-> userId,
       simple |-> d.simple, ok |-> TRUE,
       isMember |-> d.isMember, isAdmin |-> d.isAdmin,
       failing |-> failing, mode |-> mode,
       posts |-> [i \in DOMAIN d.posts |->
                    WithStats(d.posts[i], userId,
                              FailureOf(d.posts[i].id, failing, mode))] ]

StatsPostIds == 1..(MaxPosts + 1)

GetGroupDetailsStats(g, userId, postsError, failing, mode) ==
  /\ ret = NoCall
  /\ g \in groups
  /\ ret' = getGroupDetailsStats(g, userId, postsError, failing, mode)
  /\ UNCHANGED <<profiles, groups, member_count, group_members, posts,
                 reviewVars, quietVars>>

\* PostModal handleLike: insert or delete the viewer's post_likes row.
LikePost(p, u) ==
  /\ ret = NoCall
  /\ \E q \in posts : q.id = p
  /\ <<p, u>> \notin post_likes
  /\ post_likes' = post_likes \cup {<<p, u>>}
  /\ ret' = [op |-> "handleLike", post |-> p, user |-> u, ok |-> TRUE]
  /\ UNCHANGED <<profiles, groups, member_count, group_members, posts,
                 reviewVars, comments, notStats, changeFeed>>

UnlikePost(p, u) ==
  /\ ret = NoCall
  /\ <<p, u>> \in post_likes
  /\ post_likes' = post_likes \ {<<p, u>>}
  /\ ret' = [op |-> "handleLike", post |-> p, user |-> u, ok |-> TRUE]
  /\ UNCHANGED <<profiles, groups, member_count, group_members, posts,
                 reviewVars, comments, notStats, changeFeed>>

\* PostModal handleAddComment: insert a comments row.
AddComment(c, p, u) ==
  /\ ret = NoCall
  /\ \E q \in posts : q.id = p
  /\ c \notin {x.id : x \in comments}
  /\ comments' = comments \cup {CommentRow(c, p)}
  /\ ret' = [op |-> "handleAddComment", post |-> p, user |-> u, ok |-> TRUE]
  /\ UNCHANGED <<profiles, groups, member_count, group_members, posts,
                 reviewVars, post_likes, notStats, changeFeed>>

\* A group with an approved admin, an approved member and its posts, each
\* pending or approved.
InitStats ==
  /\ profiles \in RoleConfigs
  /\ groups = {"g1"}
  /\ member_count = [g \in GroupIds |-> IF g = "g1" THEN Cardinality(Users) ELSE 0]
  /\ group_members = {MemberRow("g1", u, u = "u1", "approved") : u \in Users}
  /\ \E st \in [StatsPostIds -> {"pending", "approved"}] :
       posts = {PostRow(i, "g1", st[i]) : i \in StatsPostIds}
  /\ ret = NoCall
  /\ notes = [n \in {} |-> {}]
  /\ pendingPosts = [u \in Users |-> {}]
  /\ userPosts = [n \in NoteIds |-> "none"]
  /\ editDialogOpen = {}
  /\ post_likes = {}
  /\ comments = {}
  /\ AuthMounted
  /\ pathname = "/"
  /\ clientSession = NullSession
  /\ NoFeed
  /\ calls = NoCalls

NextStats ==
  \/ \E p \in StatsPostIds, u \in Users : LikePost(p, u)
  \/ \E p \in StatsPostIds, u \in Users : UnlikePost(p, u)
  \/ \E c \in CommentIds, p \in StatsPostIds, u \in Users : AddComment(c, p, u)
  \/ \E g \in GroupIds, u \in Users \cup {NoUser}, e \in BOOLEAN,
        failing \in SUBSET StatsPostIds, mode \in FailureModes :
       GetGroupDetailsStats(g, u, e, failing, mode)
  \/ Return

SpecStats == InitStats /\ [][NextStats]_vars

\* ----------------------------------------------------------- AuthProvider
\* The row fetchProfile reads for userId.
ProfileRowOf(userId) == [id |-> userId, user_role |-> profiles[userId]]

\* What awaits a fetchProfile call: initializeAuth, the handler of an event,
\* or refreshProfile.
FetchOrigins == {"init", "INITIAL_SESSION", "SIGNED_IN", "refresh"}
Fetch(userId, origin) == [userId |-> userId, then |-> origin]

\* setSession(session); setUser(session?.user ?? null); without a user also
\* setProfile(null) and setLoading(false), which no await separates from them.
SessionApplied(s) ==
  [auth EXCEPT !.session = s, !.user = s.user,
               !.profile = IF s.user = Null THEN NullProfile ELSE @,
               !.loading = IF s.user = Null THEN FALSE ELSE @]

\* The handler's steps from setSession to the await of fetchProfile, or to
\* its end when the session has no user.
ApplySession(event, s) ==
  /\ auth' = SessionApplied(s)
  /\ currentUserIdRef' = s.user
  /\ profileFetches' = IF s.user # Null
                       THEN profileFetches \cup {Fetch(s.user, event)}
                       ELSE profileFetches
  /\ pathname' = IF s.user = Null /\ event = "SIGNED_OUT" /\ pathname # "/login"
                 THEN "/login" ELSE pathname

\* Mutant: a token refresh is handled like a sign-in.
TokenRefreshed_Applied(s) ==
  ApplySession("SIGNED_IN", s)

\* if (event === "TOKEN_REFRESHED") { setSession(session); return; }
TokenRefreshed_Handled(s) ==
  /\ auth' = [auth EXCEPT !.session = s]
  /\ UNCHANGED <<currentUserIdRef, profileFetches, pathname>>

\* The callback given to onAuthStateChange, up to its first await.
onAuthStateChange(event, s) ==
  IF event = "INITIAL_SESSION" /\ hasInitialized
  THEN UNCHANGED <<auth, currentUserIdRef, profileFetches, pathname>>
  ELSE IF event = "TOKEN_REFRESHED"
  THEN TokenRefreshed_Handled(s)
  ELSE IF event = "SIGNED_IN" /\ currentUserIdRef # Null /\ s.user = currentUserIdRef
  THEN UNCHANGED <<auth, currentUserIdRef, profileFetches, pathname>>
  ELSE ApplySession(event, s)

\* initializeAuth after getSession has resolved.
GetSessionDone(error) ==
  /\ Cardinality(profileFetches) < MaxFetches
  /\ "getSession" \in startup
  /\ startup' = startup \ {"getSession"}
  /\ hasInitialized' = TRUE
  /\ IF hasInitialized
     THEN UNCHANGED <<auth, currentUserIdRef, profileFetches>>
     ELSE IF error
     THEN /\ auth' = [auth EXCEPT !.loading = FALSE]
          /\ UNCHANGED <<currentUserIdRef, profileFetches>>
     ELSE /\ auth' = SessionApplied(clientSession)
          /\ currentUserIdRef' = clientSession.user
          /\ profileFetches' = IF clientSession.user # Null
                               THEN profileFetches \cup {Fetch(clientSession.user, "init")}
                               ELSE profileFetches
  /\ UNCHANGED <<profiles, groups, member_count, group_members, posts, ret,
                 reviewVars, notAuth, changeFeed, pathname, clientSession>>

\* The auth client emits INITIAL_SESSION to the new subscriber.
InitialSession ==
  /\ Cardinality(profileFetches) < MaxFetches
  /\ "INITIAL_SESSION" \in startup
  /\ startup' = startup \ {"INITIAL_SESSION"}
  /\ onAuthStateChange("INITIAL_SESSION", clientSession)
  /\ UNCHANGED <<profiles, groups, member_count, group_members, posts, ret,
                 reviewVars, notAuth, changeFeed, hasInitialized, clientSession>>

\* A sign-in, or the client's repeat of SIGNED_IN for the session it holds.
SignedIn(s) ==
  /\ Cardinality(profileFetches) < MaxFetches
  /\ clientSession' = s
  /\ onAuthStateChange("SIGNED_IN", s)
  /\ UNCHANGED <<profiles, groups, member_count, group_members, posts, ret,
                 reviewVars, notAuth, changeFeed, hasInitialized, startup>>

SignedOut ==
  /\ clientSession # NullSession
  /\ clientSession' = NullSession
  /\ onAuthStateChange("SIGNED_OUT", NullSession)
  /\ UNCHANGED <<profiles, groups, member_count, group_members, posts, ret,
                 reviewVars, notAuth, changeFeed, hasInitialized, startup>>

\* The client has renewed the access token of its session.
TokenRefreshed(t) ==
  /\ clientSession # NullSession
  /\ clientSession.token # t
  /\ clientSession' = [clientSession EXCEPT !.token = t]
  /\ onAuthStateChange("TOKEN_REFRESHED", clientSession')
  /\ UNCHANGED <<profiles, groups, member_count, group_members, posts, ret,
                 reviewVars, notAuth, changeFeed, hasInitialized, startup>>

\* refreshProfile: if (user) await fetchProfile(user.id)
RefreshProfile ==
  /\ Cardinality(profileFetches) < MaxFetches
  /\ auth.user # Null
  /\ profileFetches' = profileFetches \cup {Fetch(auth.user, "refresh")}
  /\ UNCHANGED <<profiles, groups, member_count, group_members, posts, ret,
                 reviewVars, notAuth, changeFeed, auth, currentUserIdRef, hasInitialized,
                 startup, pathname, clientSession>>

\* fetchProfile after its lookup: setProfile(data), or setProfile(null) on error.
ProfileSet(f, error) ==
  IF error THEN NullProfile ELSE ProfileRowOf(f.userId)

\* A profile lookup resolves; fetchProfile sets the profile and its caller
\* resumes: setLoading(false), then the handler's redirect.
FetchProfileDone(f, error) ==
  /\ f \in profileFetches
  /\ profileFetches' = profileFetches \ {f}
  /\ auth' = [auth EXCEPT !.profile = ProfileSet(f, error),
                          !.loading = IF f.then = "refresh" THEN @ ELSE FALSE]
  /\ pathname' = IF f.then = "SIGNED_IN" /\ pathname = "/login" THEN "/"
                 ELSE pathname
  /\ UNCHANGED <<profiles, groups, member_count, group_members, posts, ret,
                 reviewVars, notAuth, changeFeed, currentUserIdRef, hasInitialized, startup,
                 clientSession>>

\* The user opens another page.
Navigate(p) ==
  /\ pathname # p
  /\ pathname' = p
  /\ UNCHANGED <<profiles, groups, member_count, group_members, posts, ret,
                 reviewVars, notAuth, changeFeed, auth, currentUserIdRef, hasInitialized,
                 startup, profileFetches, clientSession>>

\* --------------------------------------------------------- ProtectedRoute
\* requiredRole is an optional prop.
NoRequiredRole == "undefined"

\* The roleHierarchy table of ProtectedRoute.
routeRank(role) ==
  IF role = "universal_admin" THEN 3
  ELSE IF role = "group_admin" THEN 2
  ELSE 1

\* requiredRole && profile && !hasPermission
RankTooLow(requiredRole, profile) ==
  /\ requiredRole # NoRequiredRole
  /\ profile # NullProfile
  /\ routeRank(profile.user_role) < routeRank(requiredRole)

\* What ProtectedRoute returns for the context value a.
Rendered(requiredRole, a) ==
  IF a.loading THEN "spinner"
  ELSE IF a.user = Null THEN "nothing"
  ELSE IF RankTooLow(requiredRole, a.profile) THEN "nothing"
  ELSE "children"

\* Where the effect of ProtectedRoute sends the router; fallbackUrl has its
\* default.
Pushed(requiredRole, a) ==
  IF a.loading THEN pathname
  ELSE IF a.user = Null THEN "/login"
  ELSE IF RankTooLow(requiredRole, a.profile) THEN "/"
  ELSE pathname

\* ProtectedRoute renders with the current context value and runs its effect.
RenderProtectedRoute(requiredRole) ==
  /\ ret = NoCall
  /\ ret' = [op |-> "ProtectedRoute", ok |-> TRUE, requiredRole |-> requiredRole,
             loading |-> auth.loading, user |-> auth.user,
             profile |-> auth.profile,
             rendered |-> Rendered(requiredRole, auth)]
  /\ pathname' = Pushed(requiredRole, auth)
  /\ UNCHANGED <<profiles, groups, member_count, group_members, posts,
                 reviewVars, notAuth, changeFeed, auth, currentUserIdRef, hasInitialized,
                 startup, profileFetches, clientSession>>

\* The application is opened, signed out or with a stored session.
InitProvider ==
  /\ profiles \in RoleConfigs
  /\ groups = {}
  /\ member_count = [g \in GroupIds |-> 0]
  /\ group_members = {}
  /\ posts = {}
  /\ ret = NoCall
  /\ notes = [n \in {} |-> {}]
  /\ pendingPosts = [u \in Users |-> {}]
  /\ userPosts = [n \in NoteIds |-> "none"]
  /\ editDialogOpen = {}
  /\ post_likes = {}
  /\ comments = {}
  /\ AuthMounted
  /\ pathname \in Paths
  /\ clientSession \in Sessions \cup {NullSession}
  /\ NoFeed
  /\ calls = NoCalls

NextProvider ==
  \/ \E e \in BOOLEAN : GetSessionDone(e)
  \/ InitialSession
  \/ \E s \in Sessions : SignedIn(s)
  \/ SignedOut
  \/ \E t \in Tokens : TokenRefreshed(t)
  \/ RefreshProfile
  \/ \E u \in Users, o \in FetchOrigins, e \in BOOLEAN :
       FetchProfileDone(Fetch(u, o), e)
  \/ \E p \in Paths : Navigate(p)
  \/ \E r \in UserRole \cup {NoRequiredRole} : RenderProtectedRoute(r)
  \/ Return

SpecProvider == InitProvider /\ [][NextProvider]_vars

\* --------------------------------------------------------------- FeedPage
\* created_at is not part of the modelled rows: a select ordered by it
\* returns the rows in this order.
NoteOrder == <<"n2", "n1">>

\* A change to a post_likes row as the store publishes it.
LikeEvent(eventType, n, userId) ==
  [table |-> "post_likes", eventType |-> eventType, post_id |-> n, user_id |-> userId]

\* An element of the posts state.
FeedPost(n, row, likeCount, commentCount, userHasLiked) ==
  [id |-> n, post_type |-> row.post_type, approval_status |-> row.approval_status,
   like_count |-> likeCount, comment_count |-> commentCount,
   user_has_liked |-> userHasLiked]

\* The filter of fetchPosts: .eq("post_type", "public").eq("approval_status", "approved")
FeedVisible(row) == row.post_type = "public" /\ row.approval_status = "approved"

\* The rows fetchPosts selects, each with its stats for the viewer.
postsWithStats(viewer) ==
  LET ids == SelectSeq(NoteOrder,
                       LAMBDA n : n \in DOMAIN notes /\ FeedVisible(notes[n]))
  IN [i \in DOMAIN ids |->
        FeedPost(ids[i], notes[ids[i]], LikeCount(ids[i]), CommentCount(ids[i]),
                 viewer # Null /\ UserLike(ids[i], viewer))]

\* The posts handler of the feed_changes channel, as the updater given to
\* setPosts; a payload row carries no stats (like_count || 0 reads them as 0).
OnPostsChange(list, ev) ==
  IF ev.eventType = "INSERT"
  THEN <<FeedPost(ev.post_id, ev.row, 0, 0, FALSE)>> \o list
  ELSE IF ev.eventType = "UPDATE"
  THEN [i \in DOMAIN list |->
          IF list[i].id = ev.post_id
          THEN [list[i] EXCEPT !.post_type = ev.row.post_type,
                               !.approval_status = ev.row.approval_status]
          ELSE list[i]]
  ELSE SelectSeq(list, LAMBDA p : p.id # ev.post_id)

\* Math.max(0, (post.like_count || 0) + increment)
Bumped(count, eventType) ==
  LET increment == IF eventType = "INSERT" THEN 1 ELSE 0 - 1
  IN IF count + increment < 0 THEN 0 ELSE count + increment

\* The post_likes handler of the channel.
OnLikesChange(list, ev, viewer) ==
  [i \in DOMAIN list |->
     IF list[i].id # ev.post_id THEN list[i]
     ELSE [list[i] EXCEPT
             !.like_count = Bumped(@, ev.eventType),
             !.user_has_liked =
               IF ev.eventType = "INSERT" THEN ev.user_id = viewer
               ELSE IF ev.user_id = viewer THEN FALSE ELSE @]]

\* fetchPosts: the posts query and the stats lookups; an error is logged and
\* the list is left as it is.
FetchPostsQuery(error) ==
  /\ ret = NoCall
  /\ feedFetch.stage = "query"
  /\ feedFetch' = IF error THEN NoFetch
                  ELSE [stage |-> "response", rows |-> postsWithStats(auth.user)]
  /\ UNCHANGED <<profiles, groups, member_count, group_members, posts, ret,
                 reviewVars, statsVars, authVars, calls, feedMounted, feedPosts, changeFeed>>

\* setPosts(postsWithStats)
FetchPostsDone ==
  /\ ret = NoCall
  /\ feedFetch.stage = "response"
  /\ feedPosts' = feedFetch.rows
  /\ feedFetch' = NoFetch
  /\ UNCHANGED <<profiles, groups, member_count, group_members, posts, ret,
                 reviewVars, statsVars, authVars, calls, feedMounted, changeFeed>>

\* The channel delivers its oldest waiting event to the page's handlers.
DeliverEvent ==
  /\ ret = NoCall
  /\ changeFeed # <<>>
  /\ feedPosts' = IF Head(changeFeed).table = "posts"
                  THEN OnPostsChange(feedPosts, Head(changeFeed))
                  ELSE OnLikesChange(feedPosts, Head(changeFeed), auth.user)
  /\ changeFeed' = Tail(changeFeed)
  /\ UNCHANGED <<profiles, groups, member_count, group_members, posts, ret,
                 reviewVars, statsVars, authVars, calls, feedMounted, feedFetch>>

\* The post_likes row and the event of a like (insert) or unlike (delete).
LikesAfter(n, userId, unlike) ==
  IF unlike THEN post_likes \ {<<n, userId>>} ELSE post_likes \cup {<<n, userId>>}
LikeEvents(n, userId, unlike) ==
  IF unlike /\ <<n, userId>> \in post_likes THEN <<LikeEvent("DELETE", n, userId)>>
  ELSE IF ~unlike /\ <<n, userId>> \notin post_likes
  THEN <<LikeEvent("INSERT", n, userId)>>
  ELSE <<>>

\* handleLike(postId) of FeedPage: unlike or like as the list says, then
\* await fetchPosts().
HandleLike(i) ==
  /\ ret = NoCall
  /\ auth.user # Null
  /\ i \in DOMAIN feedPosts
  /\ \A j \in 1..(i - 1) : feedPosts[j].id # feedPosts[i].id
  /\ feedFetch = NoFetch
  /\ CanPublish
  /\ post_likes' = LikesAfter(feedPosts[i].id, auth.user, feedPosts[i].user_has_liked)
  /\ Publish(LikeEvents(feedPosts[i].id, auth.user, feedPosts[i].user_has_liked))
  /\ feedFetch' = [stage |-> "query", rows |-> <<>>]
  /\ UNCHANGED <<profiles, groups, member_count, group_members, posts, ret,
                 reviewVars, comments, authVars, calls, feedMounted, feedPosts>>

\* FeedPage has mounted for a signed-in viewer: it is subscribed and its
\* first fetchPosts is under way.
InitFeed ==
  /\ profiles = [u \in Users |-> "universal_admin"]
  /\ groups = {}
  /\ member_count = [g \in GroupIds |-> 0]
  /\ group_members = {}
  /\ posts = {}
  /\ ret = NoCall
  /\ notes = [n \in {} |-> {}]
  /\ pendingPosts = [u \in Users |-> {}]
  /\ userPosts = [n \in NoteIds |-> "none"]
  /\ editDialogOpen = {}
  /\ post_likes = {}
  /\ comments = {}
  /\ \E u \in Users, t \in Tokens :
       /\ auth = [user |-> u, profile |-> ProfileRowOf(u),
                  session |-> [user |-> u, token |-> t], loading |-> FALSE]
       /\ currentUserIdRef = u
       /\ clientSession = [user |-> u, token |-> t]
       /\ u = "u1" /\ t = "t1"
  /\ hasInitialized = TRUE
  /\ startup = {}
  /\ profileFetches = {}
  /\ pathname = "/"
  /\ feedMounted = TRUE
  /\ feedPosts = <<>>
  /\ feedFetch = [stage |-> "query", rows |-> <<>>]
  /\ changeFeed = <<>>
  /\ calls = NoCalls

NextFeed ==
  \/ \E n \in NoteIds, form \in NoteForms, postType \in PostTypes :
       HandleSubmit(n, form, postType, " T ", " T ", FALSE)
  \/ FetchPendingPosts("u2")
  \/ \E n \in NoteIds : HandleApprove("u2", n, "t1", FALSE)
  \/ \E e \in BOOLEAN : FetchPostsQuery(e)
  \/ FetchPostsDone
  \/ DeliverEvent
  \/ \E i \in 1..Cardinality(NoteIds) : HandleLike(i)
  \/ Return

SpecFeed == InitFeed /\ [][NextFeed]_vars

\* ------------------------------------ updateMembershipStatus, step by step
\* The lookup of the membership and the delete or update of its row.
BeginUpdate(a, membershipId, status) ==
  /\ calls[a] = Idle
  /\ \E m \in group_members :
       /\ m.id = membershipId
       /\ group_members' = StatusUpdated(group_members, membershipId, status)
       /\ calls' = [calls EXCEPT ![a] = [pc |-> "count", group |-> m.group_id,
                                        count |-> 0]]
  /\ UNCHANGED <<profiles, groups, member_count, posts, ret, reviewVars,
                 statsVars, authVars, feedVars, changeFeed>>

\* select count of the group's approved rows
CountMembers(a) ==
  /\ calls[a].pc = "count"
  /\ calls' = [calls EXCEPT ![a] = [pc |-> "store", group |-> @.group,
                                   count |-> ApprovedCount(@.group)]]
  /\ UNCHANGED <<profiles, groups, member_count, group_members, posts, ret,
                 reviewVars, statsVars, authVars, feedVars, changeFeed>>

\* update groups set member_count = memberCount || 0
StoreCount(a) ==
  /\ calls[a].pc = "store"
  /\ member_count' = [member_count EXCEPT ![calls[a].group] = calls[a].count]
  /\ calls' = [calls EXCEPT ![a] = Idle]
  /\ UNCHANGED <<profiles, groups, group_members, posts, ret, reviewVars,
                 statsVars, authVars, feedVars, changeFeed>>

\* A group whose users have no row, a pending row or an approved row, with
\* its member_count in step with the rows.
InitRace ==
  /\ profiles = [u \in Users |-> "user"]
  /\ groups = {"g1"}
  /\ \E st \in [Users -> {"none", "pending", "approved"}] :
       group_members = {MemberRow("g1", u, FALSE, st[u]) : u \in {v \in Users : st[v] # "none"}}
  /\ member_count = [g \in GroupIds |-> ApprovedCount(g)]
  /\ posts = {}
  /\ ret = NoCall
  /\ notes = [n \in {} |-> {}]
  /\ pendingPosts = [u \in Users |-> {}]
  /\ userPosts = [n \in NoteIds |-> "none"]
  /\ editDialogOpen = {}
  /\ post_likes = {}
  /\ comments = {}
  /\ AuthMounted
  /\ pathname = "/"
  /\ clientSession = NullSession
  /\ NoFeed
  /\ calls = NoCalls

NextRace ==
  \/ \E a \in Callers, id \in MemberIds, st \in {"approved", "rejected"} :
       BeginUpdate(a, id, st)
  \/ \E a \in Callers : CountMembers(a)
  \/ \E a \in Callers : StoreCount(a)
  \/ \E g \in GroupIds, u \in Users : JoinGroup(g, u)
  \/ \E id \in MemberIds, st \in {"approved", "rejected"} : UpdateMembershipStatus(id, st)
  \/ \E g \in GroupIds, u \in Users : RemoveUserFromGroup(g, u)
  \/ Return

SpecRace == InitRace /\ [][NextRace]_vars

\* ================================================================ claims
GroupPosts(g, statuses) ==
  {p \in posts : p.group_id = g /\ p.approval_status \in statuses}

IsDetails == ret.op = "getGroupDetails" /\ ret.ok

\* C1: every post getGroupDetails returns belongs to the requested group and
\* is approved when isAdmin is false, pending or approved when isAdmin is
\* true; a rejected post is never returned, on either query path.
C1_VisiblePostsOnly ==
  IsDetails =>
    \A i \in DOMAIN ret.posts :
      LET p == ret.posts[i]
      IN /\ p \in posts
         /\ p.group_id = ret.group
         /\ p.approval_status # "rejected"
         /\ (~ret.isAdmin => p.approval_status = "approved")
         /\ (ret.isAdmin => p.approval_status \in {"pending", "approved"})

\* The fallback query returned a pending post to an admin.
C1_Witness ==
  /\ IsDetails /\ ret.simple /\ ret.isAdmin
  /\ \E i \in DOMAIN ret.posts : ret.posts[i].approval_status = "pending"

PendingRow(g, u) == \E m \in RowsOf(g, u) : m.status = "pending"
ApprovedRow(g, u) == \E m \in RowsOf(g, u) : m.status = "approved"

\* C2: getGroupDetails returns the visible posts of the group exactly when
\* isMember is true; a caller without user id, or a non-universal-admin with
\* no row or a pending row, is not a member and gets posts = [].
C2_PostsIffMember ==
  IsDetails =>
    /\ (~ret.isMember => ret.posts = <<>>)
    /\ (ret.isMember =>
          Range(ret.posts) =
            GroupPosts(ret.group, IF ret.isAdmin THEN {"pending", "approved"}
                                  ELSE {"approved"}))
    /\ ( (\/ ret.user = NoUser
          \/ /\ profiles[ret.user] # "universal_admin"
             /\ (RowsOf(ret.group, ret.user) = {} \/ PendingRow(ret.group, ret.user)))
         => ~ret.isMember /\ ret.posts = <<>> )

\* A pending, non-universal-admin caller got no posts from a group that has
\* an approved post.
C2_Witness ==
  /\ IsDetails /\ ret.user # NoUser
  /\ profiles[ret.user] # "universal_admin"
  /\ PendingRow(ret.group, ret.user)
  /\ GroupPosts(ret.group, {"approved"}) # {}
  /\ ret.posts = <<>>

C4_MembershipStatus ==
  IsDetails =>
    /\ ret.membershipStatus =
         IF ret.user = NoUser THEN "none"
         ELSE IF ApprovedRow(ret.group, ret.user) \/ profiles[ret.user] = "universal_admin"
              THEN "member"
         ELSE IF PendingRow(ret.group, ret.user) THEN "pending"
         ELSE "none"
    /\ (ret.membershipStatus = "member" <=> ret.isMember)

UpdateOk(status) ==
  ret.op = "updateMembershipStatus" /\ ret.ok /\ ret.status = status

\* C5: after any sequence of completed group-service calls, every group's
\* stored member_count equals the number of its approved membership rows.
C5_MemberCountIsApprovedCount ==
  \A g \in groups : member_count[g] = ApprovedCount(g)

\* An approval has brought a group to two approved members while another
\* of its rows is not counted.
C5_Witness ==
  /\ UpdateOk("approved") /\ ret.was = "pending"
  /\ member_count[ret.group] = 2
  /\ \E g \in groups : \E m \in group_members : m.group_id = g /\ m.status = "pending"

C7_JoinIsPending ==
  [][ \A g \in GroupIds, u \in Users :
        (/\ JoinGroup(g, u)
         /\ RowsOf(g, u) = {}
         /\ profiles[u] # "universal_admin")
        => /\ ret'.ok
           /\ RowsOf(g, u)' = {MemberRow(g, u, FALSE, "pending")}
           /\ group_members' \ RowsOf(g, u)' = group_members
           /\ member_count' = member_count
           /\ \A e \in BOOLEAN :
                /\ getGroupDetails(g, u, e)'.membershipStatus = "pending"
                /\ ~getGroupDetails(g, u, e)'.isMember
                /\ getGroupDetails(g, u, e)'.posts = <<>> ]_vars

\* A plain user has just joined a group that holds an approved post.
C7_Witness ==
  /\ ret.op = "joinGroup" /\ ret.ok
  /\ profiles[ret.user] # "universal_admin"
  /\ PendingRow(ret.group, ret.user)
  /\ GroupPosts(ret.group, {"approved"}) # {}

\* C8: updateMembershipStatus(id, "rejected") deletes exactly that row: its
\* (group, user) pair has no row afterwards, getGroupDetails for that user
\* (not a universal admin) reports "none", and every other row is untouched.
C8_RejectDeletesRow ==
  [][ \A id \in MemberIds :
        (/\ UpdateMembershipStatus(id, "rejected")
         /\ \E m \in group_members : m.id = id)
        => /\ ret'.ok
           /\ group_members' = {m \in group_members : m.id # id}
           /\ RowsOf(id[1], id[2])' = {}
           /\ (profiles[id[2]] # "universal_admin"
                 => getGroupDetails(id[1], id[2], FALSE)'.membershipStatus = "none") ]_vars

\* A pending request of a plain user was rejected while other rows remain.
C8_Witness ==
  /\ UpdateOk("rejected") /\ ret.was = "pending"
  /\ profiles[ret.user] # "universal_admin"
  /\ RowsOf(ret.group, ret.user) = {}
  /\ \E m \in group_members : m.group_id = ret.group

LowerSet(names) == {ToLowerCase(names[i]) : i \in DOMAIN names}
UsersNamed(n) == {u \in Users : UsernameOf(u) = n}

\* C10: the result of addMembersToGroup partitions the input usernames,
\* compared case-insensitively: notFound iff no profile has the username,
\* alreadyMembers iff its profile had a row in the group before the call,
\* added otherwise; the three lists are pairwise disjoint.
C10_AddMembersPartition ==
  ret.op = "addMembersToGroup" =>
    LET added == LowerSet(ret.added)
        already == LowerSet(ret.alreadyMembers)
        notFound == LowerSet(ret.notFound)
    IN /\ ret.ok
       /\ added \cap already = {}
       /\ added \cap notFound = {}
       /\ already \cap notFound = {}
       /\ added \cup already \cup notFound = LowerSet(ret.usernames)
       /\ \A n \in LowerSet(ret.usernames) :
            /\ (n \in notFound <=> UsersNamed(n) = {})
            /\ (n \in already <=> \E u \in UsersNamed(n) : u \in ret.before)
            /\ (n \in added <=> \E u \in UsersNamed(n) : u \notin ret.before)

\* One call reported a username in each of the three lists.
C10_Witness ==
  /\ ret.op = "addMembersToGroup"
  /\ ret.added # <<>> /\ ret.alreadyMembers # <<>> /\ ret.notFound # <<>>

\* C11: addMembersToGroup inserts, for each username it reports in added,
\* exactly one row with is_admin = false and status = approved, inserts
\* nothing else, and leaves every row that existed before unchanged: a user
\* whose row was pending is in alreadyMembers and is still pending.
C11_AddMembersFrame ==
  [][ \A g \in GroupIds :
        (ret = NoCall /\ ret'.op = "addMembersToGroup" /\ ret'.group = g)
        => /\ group_members \subseteq group_members'
           /\ group_members' \ group_members =
                {MemberRow(g, u, FALSE, "approved") :
                   u \in {v \in Users : UsernameOf(v) \in Range(ret'.added)}}
           /\ \A u \in Users :
                UsernameOf(u) \in Range(ret'.added)
                => RowsOf(g, u) = {}
                   /\ RowsOf(g, u)' = {MemberRow(g, u, FALSE, "approved")}
           /\ \A u \in Users :
                (PendingRow(g, u) /\ UsernameOf(u) \in LowerSet(ret'.usernames))
                => /\ UsernameOf(u) \in Range(ret'.alreadyMembers)
                   /\ UsernameOf(u) \notin Range(ret'.added)
                   /\ RowsOf(g, u)' = RowsOf(g, u) ]_vars

\* One call added a user and named another whose row is pending.
C11_Witness ==
  /\ ret.op = "addMembersToGroup"
  /\ ret.added # <<>>
  /\ \E u \in Users :
       /\ UsernameOf(u) \in Range(ret.alreadyMembers)
       /\ PendingRow(ret.group, u)

\* The changes of approval_status the post state machine allows.
AllowedStatusChanges ==
  {<<"pending", "approved">>, <<"pending", "rejected">>, <<"rejected", "pending">>}

\* C12: the only changes the application makes to a post's approval_status
\* are pending -> approved, pending -> rejected and rejected -> pending; in
\* particular an approved post never changes status again, whatever the
\* interleaving of approve, reject and edit, stale pending lists included.
C12_OnlyListedStatusChanges ==
  [][ \A n \in DOMAIN notes :
        notes'[n].approval_status # notes[n].approval_status
        => <<notes[n].approval_status, notes'[n].approval_status>>
             \in AllowedStatusChanges ]_vars

\* C13: every post the note-creation form inserts has approval_status =
\* pending, for post_type public and group alike.
C13_CreatedPending ==
  [][ \A n \in NoteIds :
        (n \notin DOMAIN notes /\ n \in DOMAIN notes')
        => notes'[n].approval_status = "pending" ]_vars

BlankReasons == {"", "  "}

\* C14: handleReject with an empty or whitespace-only reason sends no
\* request, leaves every post row as it was and shows an error toast; a
\* rejection that is sent has a non-blank reason, and when the update
\* succeeds the row holds that reason together with approval_status =
\* rejected.
C14_BlankRejectRefused ==
  [][ \A r \in Users, n \in NoteIds, reason \in Reasons, now \in Times, e \in BOOLEAN :
        HandleReject(r, n, reason, now, e)
        => /\ reason \in BlankReasons
              => /\ ~ret'.sent /\ ~ret'.ok
                 /\ ret'.toast = "Please provide a rejection reason"
                 /\ notes' = notes
           /\ ret'.sent => reason \notin BlankReasons
           /\ ret'.sent /\ ret'.ok
              => /\ notes'[n].approval_status = "rejected"
                 /\ notes'[n].rejection_reason = reason
                 /\ notes'[n].rejection_reason \notin BlankReasons \cup {"null"}
           /\ \A m \in DOMAIN notes' :
                notes'[m].approval_status = "rejected"
                => notes'[m].rejection_reason \notin BlankReasons \cup {"null"} ]_vars

\* A reviewer's rejection with a blank reason was refused.
C14_Witness ==
  /\ ret.op = "handleReject" /\ ~ret.sent
  /\ ret.post \in DOMAIN notes
  /\ notes[ret.post].approval_status = "pending"
  /\ notes[ret.post].rejection_reason = "null"

\* C15: the author can edit a post whose approval_status is rejected: the
\* card of a rejected post offers the edit that handleEdit serves.
C15_RejectedEditable ==
  \A n \in NoteIds : userPosts[n] = "rejected" => EditButtonShown(n)

\* The pairs <<profile role, required role>> with rank(profile) >= rank(required),
\* user = 1 < group_admin = 2 < universal_admin = 3.
RoleAtLeast ==
  {<<"user", "user">>,
   <<"group_admin", "user">>, <<"group_admin", "group_admin">>,
   <<"universal_admin", "user">>, <<"universal_admin", "group_admin">>,
   <<"universal_admin", "universal_admin">>}

AdminRow(g, u) == \E m \in group_members : m.group_id = g /\ m.user_id = u /\ m.is_admin

\* What the rights of user u over a post are, lookups aside.
MayApprove(post, u) ==
  /\ u # NoUser
  /\ IF post.post_type = "public" THEN profiles[u] = "universal_admin"
     ELSE /\ post.group_id # "null"
          /\ (profiles[u] = "universal_admin" \/ AdminRow(post.group_id, u))

\* C17 as stated: canApprovePost is true for a public post iff the caller
\* is a universal admin, for a group post iff universal admin or admin row
\* in the post's group; false when nobody is signed in, when a group post has
\* no group_id, and when any lookup fails.
C17_CanApprovePost ==
  ret.op = "canApprovePost" =>
    /\ ret.failed => ~ret.value
    /\ ~ret.failed => ret.value = MayApprove(ret.arg, ret.user)

\* C17 amended: a failed lookup withholds only what it alone would grant.
\* canApprovePost is true for a public post iff the profile lookup succeeds
\* and shows a universal admin; for a group post with a group_id iff that
\* holds or the membership lookup succeeds and shows is_admin = true; false
\* when nobody is signed in, the session call fails or the helper throws.
C17_CanApprovePostGrants ==
  [][ \A post \in AuthPosts, u \in Users \cup {NoUser}, e \in Failures :
        CanApprovePost(post, u, e)
        => ret'.value =
             (/\ u # NoUser /\ ~e.thrown /\ ~e.session
              /\ IF post.post_type = "public"
                 THEN ~e.profile /\ profiles[u] = "universal_admin"
                 ELSE /\ post.group_id # "null"
                      /\ \/ ~e.profile /\ profiles[u] = "universal_admin"
                         \/ ~e.membership /\ AdminRow(post.group_id, u)) ]_vars

\* A group admin by membership was allowed although a lookup failed.
C17_Witness ==
  /\ ret.op = "canApprovePost"
  /\ ret.value /\ ret.failed
  /\ ret.arg.post_type = "group"
  /\ AdminRow(ret.arg.group_id, ret.user)

\* C18: isGroupAdmin for a group is true for every universal admin and
\* otherwise exactly when the caller's row in that group has is_admin =
\* true, and every isGroupAdmin the program offers gives that answer.
C18_IsGroupAdminEverywhere ==
  /\ (ret.op = "isGroupAdmin" /\ ~ret.failed)
     => ret.value = (/\ ret.user # NoUser
                     /\ (profiles[ret.user] = "universal_admin"
                         \/ AdminRow(ret.arg, ret.user)))
  /\ (ret.op = "useUserRole.isGroupAdmin" /\ ~ret.failed /\ ret.user # NoUser)
     => \A g \in groups :
          ret.value = (profiles[ret.user] = "universal_admin" \/ AdminRow(g, ret.user))

\* C19: deleteGroup attempts the deletes of memberships, posts and the group
\* row in that order whatever the first two return; only the group-row error
\* is thrown, so it returns without error iff the group-row delete succeeded.
C19_DeleteGroupBestEffort ==
  [][ \A g \in GroupIds, e \in DeleteErrors :
        DeleteGroup(g, e)
        => /\ ret'.steps = <<"group_members", "posts", "groups">>
           /\ ret'.ok = ~e.groups
           /\ ret'.thrown = (IF e.groups THEN "groups" ELSE "none")
           /\ groups' = (IF e.groups THEN groups ELSE groups \ {g})
           /\ ~e.posts => \A p \in posts' : p.group_id # g
           /\ ~e.group_members => \A m \in group_members' : m.group_id # g ]_vars

\* deleteGroup returned without error although the membership delete
\* failed: the group is gone and its rows are left.
C19_Witness ==
  /\ ret.op = "deleteGroup" /\ ret.ok
  /\ "group_members" \in ret.errors
  /\ ret.group \notin groups
  /\ \E m \in group_members : m.group_id = ret.group

\* C20 as stated: if any remote step of createGroup returns an error,
\* createGroup fails with that error and performs no later step; the group
\* row of step 1 is not rolled back.
C20_AnyStepErrorFails ==
  (ret.op = "createGroup" /\ ret.errors # {})
  => /\ ~ret.ok
     /\ ret.thrown \in ret.errors
     /\ ret.steps[Len(ret.steps)] = ret.thrown
     /\ ret.thrown # "group" => ret.group \in groups

\* C20 amended: an error of the group insert or of the membership insert is
\* thrown and ends the call, the group row staying in the second case; an
\* error of the universal-admin lookup or of the member_count update is only
\* logged, and createGroup goes on and returns the group.
C20_CreateGroupErrors ==
  [][ \A u \in Users, e \in CreateErrors :
        CreateGroupWithErrors(u, e)
        => LET g == ret'.group
           IN /\ e.group
                 => /\ ~ret'.ok /\ ret'.thrown = "group" /\ ret'.steps = <<"group">>
                    /\ UNCHANGED <<groups, group_members, member_count>>
              /\ (~e.group /\ e.member)
                 => /\ ~ret'.ok /\ ret'.thrown = "member"
                    /\ ret'.steps = <<"group", "admin", "member">>
                    /\ groups' = groups \cup {g}
                    /\ group_members' = group_members
                    /\ member_count'[g] = 1
              /\ (~e.group /\ ~e.member)
                 => /\ ret'.ok /\ ret'.thrown = "none"
                    /\ ret'.steps = <<"group", "admin", "member", "update">>
                    /\ groups' = groups \cup {g}
                    /\ MemberRow(g, u, TRUE, "approved") \in group_members'
                    /\ e.admin => group_members' \ group_members
                                    = {MemberRow(g, u, TRUE, "approved")}
                    /\ e.update => member_count'[g] = 1 ]_vars

\* The membership insert failed: createGroup threw and left a group without
\* any membership row.
C20_Witness ==
  /\ ret.op = "createGroup" /\ ~ret.ok
  /\ ret.thrown = "member"
  /\ ret.group \in groups
  /\ \A m \in group_members : m.group_id # ret.group


\* The posts of the returned group that the visibility filter selects.
VisibleIn(r) ==
  {p \in posts : /\ p.group_id = r.group
                 /\ r.isMember
                 /\ p.approval_status \in
                      (IF r.isAdmin THEN {"pending", "approved"} ELSE {"approved"})}

\* The returned posts are the visible ones, newest first.
VisibleNewestFirst(r) ==
  /\ r.ok
  /\ Len(r.posts) = Cardinality(VisibleIn(r))
  /\ {r.posts[i].id : i \in DOMAIN r.posts} = {p.id : p \in VisibleIn(r)}
  /\ \A i, j \in DOMAIN r.posts :
       i < j => r.posts[i].created_at > r.posts[j].created_at

LikesOf(q) == Cardinality({u \in Users : <<q.id, u>> \in post_likes})
CommentsOf(q) == Cardinality({c \in comments : c.post_id = q.id})
LikedBy(q, u) == <<q.id, u>> \in post_likes

TrueStats(q, u) ==
  /\ q.like_count = LikesOf(q)
  /\ q.comment_count = CommentsOf(q)
  /\ q.user_has_liked = LikedBy(q, u)

AllZero(q) ==
  q.like_count = 0 /\ q.comment_count = 0 /\ q.user_has_liked = FALSE

\* C21 as stated: with failing lookups getGroupDetails still returns every
\* visible post newest first, every failing post has like_count 0,
\* comment_count 0 and user_has_liked false, and the other posts keep their
\* true stats.
C21_FailingPostAllZero ==
  ret.op = "getGroupDetailsStats" =>
    /\ VisibleNewestFirst(ret)
    /\ \A i \in DOMAIN ret.posts :
         IF ret.posts[i].id \in ret.failing
         THEN AllZero(ret.posts[i])
         ELSE TrueStats(ret.posts[i], ret.user)

\* C21 (amended): with failing lookups getGroupDetails still returns every
\* visible post newest first; a failing post has all three stats at 0 / false
\* when a lookup rejected, and otherwise only the stat whose lookup resolved
\* with an error is 0 / false while its other stats are the true ones; the
\* posts without a failing lookup keep their true stats.
C21_StatsBestEffort ==
  ret.op = "getGroupDetailsStats" =>
    /\ VisibleNewestFirst(ret)
    /\ \A i \in DOMAIN ret.posts :
         LET q == ret.posts[i]
             m == ret.mode
         IN IF q.id \notin ret.failing THEN TrueStats(q, ret.user)
            ELSE IF "thrown" \in {m.likeCount, m.commentCount, m.userLike}
            THEN AllZero(q)
            ELSE /\ q.like_count = IF m.likeCount = "error" THEN 0 ELSE LikesOf(q)
                 /\ q.comment_count =
                      IF m.commentCount = "error" THEN 0 ELSE CommentsOf(q)
                 /\ q.user_has_liked =
                      (m.userLike # "error" /\ LikedBy(q, ret.user))

\* Two posts are returned; the lookups of one failed, with a like-count error
\* while it has a comment, and the other has its like counted.
C21_Witness ==
  /\ ret.op = "getGroupDetailsStats"
  /\ Len(ret.posts) > 1
  /\ \E i, j \in DOMAIN ret.posts :
       /\ ret.posts[i].id \in ret.failing
       /\ ret.mode.likeCount = "error"
       /\ ret.posts[i].comment_count > 0
       /\ ret.posts[j].id \notin ret.failing
       /\ ret.posts[j].like_count > 0

\* C23: joinGroup for a (group, user) pair that already has a membership row
\* throws after both insert attempts and changes neither group_members (so
\* the row keeps its status and is_admin) nor member_count.
C23_JoinExistingFails ==
  [][\A g \in GroupIds, u \in Users :
       (ret = NoCall /\ RowsOf(g, u) # {}
        /\ ret'.op = "joinGroup" /\ ret'.group = g /\ ret'.user = u)
       => /\ ~ret'.ok
          /\ Len(ret'.attempts) = Cardinality({"with status", "without status"})
          /\ group_members' = group_members
          /\ member_count' = member_count]_vars

\* joinGroup has failed for a user who is an approved member of the group.
C23_Witness ==
  /\ ret.op = "joinGroup" /\ ~ret.ok
  /\ \E m \in group_members :
       /\ m.group_id = ret.group /\ m.user_id = ret.user
       /\ m.status = "approved"

\* C27: in every result of getGroupDetails isAdmin implies isMember; a caller
\* whose row is pending, or who has no row and is not a universal admin, does
\* not get isAdmin = true.
C27_AdminImpliesMember ==
  (ret.op = "getGroupDetails" /\ ret.ok) =>
    /\ ret.isAdmin => ret.isMember
    /\ (/\ ret.user # NoUser
        /\ ~IsUniversalAdmin(ret.user)
        /\ \A m \in RowsOf(ret.group, ret.user) : m.status = "pending")
       => ~ret.isAdmin

\* C28: after any sequence of create, approve, reject and edit operations,
\* every rejected post has a non-blank rejection_reason and every pending
\* post has rejection_reason = null.
C28_ReasonMatchesStatus ==
  \A n \in DOMAIN notes :
    /\ notes[n].approval_status = "rejected"
       => Trim(notes[n].rejection_reason) \notin {"", "null"}
    /\ notes[n].approval_status = "pending"
       => notes[n].rejection_reason = "null"

\* An edit has put a reviewed post back to pending while another post is
\* rejected.
C28_Witness ==
  /\ ret.op = "handleEdit" /\ ret.ok
  /\ notes[ret.post].approval_status = "pending"
  /\ notes[ret.post].approved_by # "null"
  /\ \E n \in DOMAIN notes : notes[n].approval_status = "rejected"

\* C24: a ProtectedRoute with a requiredRole renders its children only when
\* loading has finished, a user is signed in and the loaded profile's rank is
\* at least the required role's; while loading, without a user, without a
\* loaded profile or with too low a rank the children are not rendered.
C24_ChildrenOnlyWithRank ==
  (/\ ret.op = "ProtectedRoute"
   /\ ret.requiredRole \in UserRole
   /\ ret.rendered = "children")
  => /\ ~ret.loading
     /\ ret.user # Null
     /\ ret.profile # NullProfile
     /\ <<ret.profile.user_role, ret.requiredRole>> \in RoleAtLeast

\* C26: whenever no profile fetch is in flight, the profile is null if the
\* user is null, and otherwise is null or the profile of that user.
C26_ProfileMatchesUser ==
  profileFetches = {} =>
    IF auth.user = Null THEN auth.profile = NullProfile
    ELSE auth.profile = NullProfile \/ auth.profile.id = auth.user

\* C30: a TOKEN_REFRESHED event changes only the stored session: user,
\* profile, loading and the tracked user id stay, no profile fetch starts and
\* nothing is redirected; a SIGNED_IN event for the tracked user id changes no
\* state of the provider, starts no fetch and redirects nowhere.
C30_RefreshAndRepeatFrame ==
  [][ /\ \A t \in Tokens :
           TokenRefreshed(t)
           => /\ auth'.session = clientSession'
              /\ auth'.user = auth.user
              /\ auth'.profile = auth.profile
              /\ auth'.loading = auth.loading
              /\ UNCHANGED <<currentUserIdRef, hasInitialized, profileFetches, pathname>>
      /\ \A s \in Sessions :
           (SignedIn(s) /\ currentUserIdRef # Null /\ s.user = currentUserIdRef)
           => UNCHANGED <<auth, currentUserIdRef, hasInitialized, startup,
                          profileFetches, pathname>> ]_vars

\* A token refresh has been handled before the initial session load: the
\* provider holds the client's session and nothing else has changed.
C30_Witness ==
  /\ auth.session = clientSession /\ auth.session # NullSession
  /\ auth.user = Null /\ auth.profile = NullProfile /\ auth.loading
  /\ currentUserIdRef = Null
  /\ profileFetches = {}
  /\ "getSession" \in startup

\* C25: every post in the feed page's list is public and approved, after the
\* initial fetch and after any sequence of change events on posts.
C25_FeedOnlyApprovedPublic ==
  \A i \in DOMAIN feedPosts :
    feedPosts[i].post_type = "public" /\ feedPosts[i].approval_status = "approved"

\* C29: once the refetch of a like or unlike has been applied and every
\* change event has been delivered, each listed post's like_count is the
\* number of its like rows and user_has_liked says whether the viewer has
\* one; like_count is never negative.
C29_LikesSettle ==
  /\ \A i \in DOMAIN feedPosts : feedPosts[i].like_count >= 0
  /\ (feedFetch = NoFetch /\ changeFeed = <<>>)
     => \A i \in DOMAIN feedPosts :
          /\ feedPosts[i].like_count = LikesOf(feedPosts[i])
          /\ feedPosts[i].user_has_liked = LikedBy(feedPosts[i], auth.user)

\* No updateMembershipStatus call is between its steps.
AllIdle == \A a \in Callers : calls[a] = Idle

====
